---- MODULE Spec2Model ----
(***************************************************************************)
(* TickerJob (internal/job/ticker_job.go): one job instance, one Start     *)
(* call running the scheduling loop, the goroutine of the immediate        *)
(* invocation, the runtime ticker, the context's owner and a bounded       *)
(* number of goroutines calling Stop.                                      *)
(***************************************************************************)
EXTENDS Naturals, FiniteSets, Sequences

\* ---------------------------------------------------------------- bounds
\* ticks the runtime ticker lets elapse during one Start
MaxTicks == 3
\* goroutines that call Stop, once each, at any time
NumStoppers == 2
\* transactions begun by InTx calls
MaxTx == 3
\* values a context chain holds (context.WithValue calls, InTx's included)
MaxCtxLen == 3

\* positions of a Stop call: not yet called, at stopOnce.Do, at o.m.Lock(),
\* holding the mutex, past close(j.stopCh), at o.m.Unlock(), at return nil,
\* returned
StopPositions == {"idle", "do", "lock", "locked", "store", "unlock", "return", "done"}

VARIABLES
    executeImmediate,  \* TickerJob.executeImmediate, fixed at construction
    pc,                \* position of the goroutine that runs Start
    ret,               \* return value of Start: "none", "nil", "ctxErr"
    immPc,             \* position of the goroutine of the immediate invocation
    wg,                \* counter of TickerJob.wg
    waited,            \* j.wg.Wait() found the counter above zero
    raced,             \* ctx.Done() and stopCh were both ready when the loop exited
    stopCh,            \* "open" or "closed"
    closes,            \* number of close(j.stopCh) executed
    panicked,          \* a close of a closed channel panicked
    onceDone,          \* stopOnce.done
    onceMu,            \* stopOnce.m is locked
    stopAt,            \* number of callers of Stop at each position of Stop
    stopRet,           \* the values Stop calls have returned so far
    cancelled,         \* ctx.Done() is closed
    tickerOn,          \* the ticker of this Start exists and is not stopped
    tickPending,       \* a tick is waiting in ticker.C
    ticksElapsed,      \* intervals elapsed since NewTicker
    ticksDropped,      \* ticks that elapsed while one was already pending
    ticksConsumed,     \* ticks received by the loop
    activeImm,         \* executeFn calls of the immediate path not yet returned
    activeTick,        \* executeFn calls of the tick path not yet returned
    count,             \* executeFn calls entered so far
    preTriggered,      \* ctx.Done() or stopCh was closed when Start was called
    faults,            \* paths ("tick", "imm") on which executeFn has panicked
    crashed,           \* the runtime has ended the process after a panic
    chans,             \* two instances: state of each channel made by make(chan struct{})
    jobs,              \* two instances: the fields and the Start call of each TickerJob
    jobsPanicked,      \* two instances: a close of a closed channel panicked
    jobsCrashed,       \* two instances: the runtime has ended the process after the panic
    sslFlag,           \* rmq.EnableSsl
    sslDone,           \* sslOnce.done
    sslMu,             \* sslOnce.m is locked
    sslPc,             \* position of each configureSSL call
    sslArg,            \* the argument enable of each configureSSL call
    sslLate,           \* the call began after some configureSSL call had returned
    sslWinner,         \* the call whose once body ran, "none" before
    txStack,           \* the InTx calls whose fn is running, outermost first
    txBegun,           \* transactions begun so far by d.db...Transaction
    rootCtx,           \* the context in use outside every InTx
    dbCall             \* the last Data.DB call: its context and its result

vars == <<executeImmediate, pc, ret, immPc, wg, waited, raced, stopCh, closes,
          panicked,
          onceDone, onceMu, stopAt, stopRet, cancelled, tickerOn, tickPending, ticksElapsed, ticksDropped,
          ticksConsumed, activeImm, activeTick, count, preTriggered, faults, crashed,
          chans, jobs, jobsPanicked, jobsCrashed,
          sslFlag, sslDone, sslMu, sslPc, sslArg, sslLate, sslWinner,
          txStack, txBegun, rootCtx, dbCall>>

faultVars == <<faults, crashed>>
pairVars == <<chans, jobs, jobsPanicked, jobsCrashed>>
sslVars == <<sslFlag, sslDone, sslMu, sslPc, sslArg, sslLate, sslWinner>>
txVars == <<txStack, txBegun, rootCtx, dbCall>>
pkgVars == <<sslVars, txVars>>

\* the call sites of configureSSL: NewProducer, NewPushConsumer, NewSimpleConsumer
SSLCallers == {"producer", "consumer", "simple"}

\* package rocketmq before any configureSSL call, rmq.EnableSsl being f
SSLInit(f) ==
    /\ sslFlag = f
    /\ sslDone = FALSE
    /\ sslMu = FALSE
    /\ sslPc = [c \in SSLCallers |-> "idle"]
    /\ sslArg = [c \in SSLCallers |-> FALSE]
    /\ sslLate = [c \in SSLCallers |-> FALSE]
    /\ sslWinner = "none"

\* no InTx is running, no DB call was made, the context carries no value
TxInit ==
    /\ txStack = <<>>
    /\ txBegun = 0
    /\ rootCtx = <<>>
    /\ dbCall = [made |-> FALSE, ctx |-> <<>>, kind |-> "default", tx |-> 0]

\* the two job instances of the two-instance model
Jobs == {1, 2}

\* newTickerJob's make(chan struct{}) shared by all instances (one
\* package-level channel)
NewStopCh_Shared(i) == 1

\* stopCh: make(chan struct{}): the call for instance i yields a channel of its own
NewStopCh(i) == i

\* positions of a Stop call that has begun, in the models of two values:
\* waiting in o.m.Lock(), holding the mutex, past close(j.stopCh), past
\* done.Store(1), returned, left by a panic
StopRun == {"lock", "locked", "store", "unlock", "done", "panicked"}

\* newTickerJob: the value it returns for instance i built with flag imm
\* (stopCh, zero-valued stopOnce and wg), with no Start and no Stop call begun
NewJob(i, imm) ==
    [stopCh |-> NewStopCh(i), onceDone |-> FALSE, onceMu |-> FALSE, wg |-> 0,
     executeImmediate |-> imm, pc |-> "idle", immPc |-> "none",
     ret |-> "none", ctxDone |-> FALSE, count |-> 0, closes |-> 0,
     panicking |-> FALSE, stopAt |-> [p \in StopRun |-> 0]]

\* two jobs built by separate newTickerJob calls, the first with
\* executeImmediate=true, the second with false; every made channel open
PairInit ==
    /\ jobs = [i \in Jobs |-> NewJob(i, i = 1)]
    /\ chans = [c \in Jobs |-> "open"]
    /\ jobsPanicked = FALSE
    /\ jobsCrashed = FALSE
startVars == <<pc, ret, immPc, wg, waited, raced, tickerOn, tickPending, ticksConsumed,
               activeImm, activeTick, count, preTriggered>>
stopVars == <<stopCh, closes, panicked, onceDone, onceMu, stopAt, stopRet>>
tickVars == <<ticksElapsed, ticksDropped>>

\* newTickerJob called with executeImmediate = imm: stopCh made open,
\* zero-valued stopOnce and wg
JobInitWith(imm) ==
    /\ executeImmediate = imm
    /\ pc = "idle"
    /\ ret = "none"
    /\ immPc = "none"
    /\ wg = 0
    /\ waited = FALSE
    /\ raced = FALSE
    /\ stopCh = "open"
    /\ closes = 0
    /\ panicked = FALSE
    /\ onceDone = FALSE
    /\ onceMu = FALSE
    /\ stopAt = [p \in StopPositions |-> IF p = "idle" THEN NumStoppers ELSE 0]
    /\ stopRet = {}
    /\ cancelled = FALSE
    /\ tickerOn = FALSE
    /\ tickPending = FALSE
    /\ ticksElapsed = 0
    /\ ticksDropped = 0
    /\ ticksConsumed = 0
    /\ activeImm = 0
    /\ activeTick = 0
    /\ count = 0
    /\ preTriggered = FALSE
    /\ faults = {}
    /\ crashed = FALSE

\* the job built with either value of the flag
JobInit == \E imm \in BOOLEAN : JobInitWith(imm)

Init ==
    /\ JobInit
    /\ PairInit
    /\ SSLInit(FALSE)
    /\ TxInit

\* ------------------------------------------------------------ Start(ctx)

\* StartCall making a fresh stop channel (Start re-arming the instance)
StartCall_Rearm ==
    /\ pc = "idle"
    /\ pc' = "immediate"
    /\ preTriggered' = (cancelled \/ stopCh = "closed")
    /\ stopCh' = "open"
    /\ UNCHANGED <<executeImmediate, ret, immPc, wg, waited, raced, tickerOn, tickPending,
                   ticksConsumed, activeImm, activeTick, count, cancelled>>
    /\ UNCHANGED <<closes, panicked, onceDone, onceMu, stopAt, stopRet>>
    /\ UNCHANGED tickVars

\* the supervisor calls j.Start(ctx)
StartCall ==
    /\ pc = "idle"
    /\ pc' = "immediate"
    /\ preTriggered' = (cancelled \/ stopCh = "closed")
    /\ UNCHANGED <<executeImmediate, ret, immPc, wg, waited, raced, tickerOn, tickPending,
                   ticksConsumed, activeImm, activeTick, count, cancelled>>
    /\ UNCHANGED stopVars /\ UNCHANGED tickVars

\* StartImmediate with the flag ignored: the goroutine is always launched
StartImmediate_Always ==
    /\ pc = "immediate"
    /\ wg' = wg + 1
    /\ immPc' = "spawned"
    /\ pc' = "ticker"
    /\ UNCHANGED <<executeImmediate, preTriggered, ret, waited, raced, tickerOn, tickPending,
                   ticksConsumed, activeImm, activeTick, count, cancelled>>
    /\ UNCHANGED stopVars /\ UNCHANGED tickVars

\* StartImmediate with the launch left out
StartImmediate_Never ==
    /\ pc = "immediate"
    /\ pc' = "ticker"
    /\ UNCHANGED <<executeImmediate, preTriggered, ret, immPc, wg, waited, raced, tickerOn, tickPending,
                   ticksConsumed, activeImm, activeTick, count, cancelled>>
    /\ UNCHANGED stopVars /\ UNCHANGED tickVars

\* StartImmediate skipping the launch when a termination trigger is already set
StartImmediate_UnlessTriggered ==
    /\ pc = "immediate"
    /\ IF executeImmediate /\ ~cancelled /\ stopCh = "open"
         THEN wg' = wg + 1 /\ immPc' = "spawned"
         ELSE UNCHANGED <<wg, immPc>>
    /\ pc' = "ticker"
    /\ UNCHANGED <<executeImmediate, preTriggered, ret, waited, raced, tickerOn, tickPending,
                   ticksConsumed, activeImm, activeTick, count, cancelled>>
    /\ UNCHANGED stopVars /\ UNCHANGED tickVars

\* if j.executeImmediate { j.wg.Add(1); go func() {...}() }
StartImmediate ==
    /\ pc = "immediate"
    /\ IF executeImmediate
         THEN wg' = wg + 1 /\ immPc' = "spawned"
         ELSE UNCHANGED <<wg, immPc>>
    /\ pc' = "ticker"
    /\ UNCHANGED <<executeImmediate, preTriggered, ret, waited, raced, tickerOn, tickPending,
                   ticksConsumed, activeImm, activeTick, count, cancelled>>
    /\ UNCHANGED stopVars /\ UNCHANGED tickVars

\* NewTicker reached only after the immediate invocation has returned (the
\* immediate invocation called in-line instead of in a goroutine)
NewTicker_AfterImmediate ==
    /\ pc = "ticker"
    /\ immPc \in {"none", "done"}
    /\ tickerOn' = TRUE
    /\ pc' = "select"
    /\ UNCHANGED <<executeImmediate, preTriggered, ret, immPc, wg, waited, raced, tickPending,
                   ticksConsumed, activeImm, activeTick, count, cancelled>>
    /\ UNCHANGED stopVars /\ UNCHANGED tickVars

\* ticker := time.NewTicker(j.interval)
NewTicker ==
    /\ pc = "ticker"
    /\ tickerOn' = TRUE
    /\ pc' = "select"
    /\ UNCHANGED <<executeImmediate, preTriggered, ret, immPc, wg, waited, raced, tickPending,
                   ticksConsumed, activeImm, activeTick, count, cancelled>>
    /\ UNCHANGED stopVars /\ UNCHANGED tickVars

\* SelectCtx falling into the stop branch's exit
SelectCtx_AsStop ==
    /\ pc = "select"
    /\ cancelled
    /\ waited' = (wg > 0)
    /\ raced' = (cancelled /\ stopCh = "closed")
    /\ pc' = "waitStop"
    /\ UNCHANGED <<executeImmediate, preTriggered, ret, immPc, wg, tickerOn, tickPending,
                   ticksConsumed, activeImm, activeTick, count, cancelled>>
    /\ UNCHANGED stopVars /\ UNCHANGED tickVars

\* SelectCtx taken only when the stop channel is not ready (stop has priority)
SelectCtx_StopFirst ==
    /\ pc = "select"
    /\ cancelled
    /\ stopCh = "open"
    /\ waited' = (wg > 0)
    /\ raced' = FALSE
    /\ pc' = "waitCtx"
    /\ UNCHANGED <<executeImmediate, preTriggered, ret, immPc, wg, tickerOn, tickPending,
                   ticksConsumed, activeImm, activeTick, count, cancelled>>
    /\ UNCHANGED stopVars /\ UNCHANGED tickVars

\* case <-ctx.Done(): the loop exits into j.wg.Wait()
SelectCtx ==
    /\ pc = "select"
    /\ cancelled
    /\ waited' = (wg > 0)
    /\ raced' = (cancelled /\ stopCh = "closed")
    /\ pc' = "waitCtx"
    /\ UNCHANGED <<executeImmediate, preTriggered, ret, immPc, wg, tickerOn, tickPending,
                   ticksConsumed, activeImm, activeTick, count, cancelled>>
    /\ UNCHANGED stopVars /\ UNCHANGED tickVars

\* WaitCtx returning nil instead of ctx.Err()
WaitCtx_ReturnsNil ==
    /\ pc = "waitCtx"
    /\ wg = 0
    /\ ret' = "nil"
    /\ tickerOn' = FALSE
    /\ pc' = "returned"
    /\ UNCHANGED <<executeImmediate, preTriggered, immPc, wg, waited, raced, tickPending,
                   ticksConsumed, activeImm, activeTick, count, cancelled>>
    /\ UNCHANGED stopVars /\ UNCHANGED tickVars

\* j.wg.Wait() returns; return ctx.Err()   (deferred ticker.Stop())
WaitCtx ==
    /\ pc = "waitCtx"
    /\ wg = 0
    /\ ret' = "ctxErr"
    /\ tickerOn' = FALSE
    /\ pc' = "returned"
    /\ UNCHANGED <<executeImmediate, preTriggered, immPc, wg, waited, raced, tickPending,
                   ticksConsumed, activeImm, activeTick, count, cancelled>>
    /\ UNCHANGED stopVars /\ UNCHANGED tickVars

\* SelectStop taken only when no tick is ready (ticks have priority)
SelectStop_TickFirst ==
    /\ pc = "select"
    /\ stopCh = "closed"
    /\ ~tickPending
    /\ waited' = (wg > 0)
    /\ raced' = (cancelled /\ stopCh = "closed")
    /\ pc' = "waitStop"
    /\ UNCHANGED <<executeImmediate, preTriggered, ret, immPc, wg, tickerOn, tickPending,
                   ticksConsumed, activeImm, activeTick, count, cancelled>>
    /\ UNCHANGED stopVars /\ UNCHANGED tickVars

\* case <-j.stopCh: the loop exits into j.wg.Wait()
SelectStop ==
    /\ pc = "select"
    /\ stopCh = "closed"
    /\ waited' = (wg > 0)
    /\ raced' = (cancelled /\ stopCh = "closed")
    /\ pc' = "waitStop"
    /\ UNCHANGED <<executeImmediate, preTriggered, ret, immPc, wg, tickerOn, tickPending,
                   ticksConsumed, activeImm, activeTick, count, cancelled>>
    /\ UNCHANGED stopVars /\ UNCHANGED tickVars

\* WaitStop without the j.wg.Wait()
WaitStop_NoJoin ==
    /\ pc = "waitStop"
    /\ ret' = "nil"
    /\ tickerOn' = FALSE
    /\ pc' = "returned"
    /\ UNCHANGED <<executeImmediate, preTriggered, immPc, wg, waited, raced, tickPending,
                   ticksConsumed, activeImm, activeTick, count, cancelled>>
    /\ UNCHANGED stopVars /\ UNCHANGED tickVars

\* j.wg.Wait() returns; return nil   (deferred ticker.Stop())
WaitStop ==
    /\ pc = "waitStop"
    /\ wg = 0
    /\ ret' = "nil"
    /\ tickerOn' = FALSE
    /\ pc' = "returned"
    /\ UNCHANGED <<executeImmediate, preTriggered, immPc, wg, waited, raced, tickPending,
                   ticksConsumed, activeImm, activeTick, count, cancelled>>
    /\ UNCHANGED stopVars /\ UNCHANGED tickVars

\* SelectTick leaving the tick in the channel: the same tick is received again
SelectTick_KeepsTick ==
    /\ pc = "select"
    /\ tickPending
    /\ ticksConsumed' = ticksConsumed + 1
    /\ pc' = "tickAdd"
    /\ UNCHANGED <<executeImmediate, preTriggered, ret, immPc, wg, waited, raced, tickerOn,
                   tickPending, activeImm, activeTick, count, cancelled>>
    /\ UNCHANGED stopVars /\ UNCHANGED tickVars

\* case <-ticker.C:
SelectTick ==
    /\ pc = "select"
    /\ tickPending
    /\ tickPending' = FALSE
    /\ ticksConsumed' = ticksConsumed + 1
    /\ pc' = "tickAdd"
    /\ UNCHANGED <<executeImmediate, preTriggered, ret, immPc, wg, waited, raced, tickerOn,
                   activeImm, activeTick, count, cancelled>>
    /\ UNCHANGED stopVars /\ UNCHANGED tickVars

\* TickAdd with the j.wg.Add(1) left out
TickAdd_NoAdd ==
    /\ pc = "tickAdd"
    /\ pc' = "tickCall"
    /\ UNCHANGED <<executeImmediate, preTriggered, ret, immPc, wg, waited, raced, tickerOn,
                   tickPending, ticksConsumed, activeImm, activeTick, count,
                   cancelled>>
    /\ UNCHANGED stopVars /\ UNCHANGED tickVars

\* j.wg.Add(1)
TickAdd ==
    /\ pc = "tickAdd"
    /\ wg' = wg + 1
    /\ pc' = "tickCall"
    /\ UNCHANGED <<executeImmediate, preTriggered, ret, immPc, waited, raced, tickerOn, tickPending,
                   ticksConsumed, activeImm, activeTick, count, cancelled>>
    /\ UNCHANGED stopVars /\ UNCHANGED tickVars

\* TickInvoke with `go func() {...}()`: the loop does not wait for executeFn
TickInvoke_Async ==
    /\ pc = "tickCall"
    /\ activeTick' = activeTick + 1
    /\ count' = count + 1
    /\ pc' = "select"
    /\ UNCHANGED <<executeImmediate, preTriggered, ret, immPc, wg, waited, raced, tickerOn, tickPending,
                   ticksConsumed, activeImm, cancelled>>
    /\ UNCHANGED stopVars /\ UNCHANGED tickVars

\* TickInvoke with the call of executeFn left out
TickInvoke_Skip ==
    /\ pc = "tickCall"
    /\ pc' = "tickDone"
    /\ UNCHANGED <<executeImmediate, preTriggered, ret, immPc, wg, waited, raced, tickerOn, tickPending,
                   ticksConsumed, activeImm, activeTick, count, cancelled>>
    /\ UNCHANGED stopVars /\ UNCHANGED tickVars

\* func() { ...; j.executeFn(ctx) }(): executeFn is entered on the loop's goroutine
TickInvoke ==
    /\ pc = "tickCall"
    /\ activeTick' = activeTick + 1
    /\ count' = count + 1
    /\ pc' = "tickExec"
    /\ UNCHANGED <<executeImmediate, preTriggered, ret, immPc, wg, waited, raced, tickerOn, tickPending,
                   ticksConsumed, activeImm, cancelled>>
    /\ UNCHANGED stopVars /\ UNCHANGED tickVars

\* executeFn returns to the closure
TickFnReturn ==
    /\ pc = "tickExec"
    /\ activeTick' = activeTick - 1
    /\ pc' = "tickDone"
    /\ UNCHANGED <<executeImmediate, preTriggered, ret, immPc, wg, waited, raced, tickerOn, tickPending,
                   ticksConsumed, activeImm, count, cancelled>>
    /\ UNCHANGED stopVars /\ UNCHANGED tickVars

\* defer j.wg.Done(), then back to the select
TickWgDone ==
    /\ pc = "tickDone"
    /\ wg' = wg - 1
    /\ pc' = "select"
    /\ UNCHANGED <<executeImmediate, preTriggered, ret, immPc, waited, raced, tickerOn, tickPending,
                   ticksConsumed, activeImm, activeTick, count, cancelled>>
    /\ UNCHANGED stopVars /\ UNCHANGED tickVars

\* -------------------------------------- goroutine of the immediate path

\* the goroutine is scheduled and enters j.executeFn(ctx)
ImmInvoke ==
    /\ immPc = "spawned"
    /\ activeImm' = activeImm + 1
    /\ count' = count + 1
    /\ immPc' = "exec"
    /\ UNCHANGED <<executeImmediate, preTriggered, pc, ret, wg, waited, raced, tickerOn, tickPending,
                   ticksConsumed, activeTick, cancelled>>
    /\ UNCHANGED stopVars /\ UNCHANGED tickVars

\* executeFn returns to the goroutine's function
ImmFnReturn ==
    /\ immPc = "exec"
    /\ activeImm' = activeImm - 1
    /\ immPc' = "fnDone"
    /\ UNCHANGED <<executeImmediate, preTriggered, pc, ret, wg, waited, raced, tickerOn, tickPending,
                   ticksConsumed, activeTick, count, cancelled>>
    /\ UNCHANGED stopVars /\ UNCHANGED tickVars

\* defer j.wg.Done(), the goroutine ends
ImmWgDone ==
    /\ immPc = "fnDone"
    /\ wg' = wg - 1
    /\ immPc' = "done"
    /\ UNCHANGED <<executeImmediate, preTriggered, pc, ret, waited, raced, tickerOn, tickPending,
                   ticksConsumed, activeImm, activeTick, count, cancelled>>
    /\ UNCHANGED stopVars /\ UNCHANGED tickVars

\* ------------------------------------------------- ticker and context

\* one interval elapses: the runtime offers a tick to ticker.C, which holds
\* at most one; a tick that finds one pending is dropped
TickElapse ==
    /\ tickerOn
    /\ ticksElapsed < MaxTicks
    /\ ticksElapsed' = ticksElapsed + 1
    /\ IF tickPending
         THEN ticksDropped' = ticksDropped + 1 /\ UNCHANGED tickPending
         ELSE tickPending' = TRUE /\ UNCHANGED ticksDropped
    /\ UNCHANGED <<executeImmediate, preTriggered, pc, ret, immPc, wg, waited, raced, tickerOn,
                   ticksConsumed, activeImm, activeTick, count, cancelled>>
    /\ UNCHANGED stopVars

\* the owner of ctx cancels it
Cancel ==
    /\ ~cancelled
    /\ cancelled' = TRUE
    /\ UNCHANGED executeImmediate
    /\ UNCHANGED startVars /\ UNCHANGED stopVars /\ UNCHANGED tickVars

\* -------------------------------------------------------------- Stop(_)

\* one caller moves from position p to position q
Moved(p, q) == [stopAt EXCEPT ![p] = @ - 1, ![q] = @ + 1]

\* number of Stop calls begun so far
stopCalls == NumStoppers - stopAt["idle"]

\* a goroutine calls j.Stop(ctx)
StopCall ==
    /\ stopAt["idle"] > 0
    /\ stopAt' = Moved("idle", "do")
    /\ UNCHANGED <<stopCh, closes, panicked, onceDone, onceMu, stopRet>>
    /\ UNCHANGED <<executeImmediate, cancelled>>
    /\ UNCHANGED startVars /\ UNCHANGED tickVars

\* j.stopOnce.Do: the fast path, if o.done.Load() == 0 { o.doSlow(f) }
StopOnceDo ==
    /\ stopAt["do"] > 0
    /\ stopAt' = Moved("do", IF onceDone THEN "return" ELSE "lock")
    /\ UNCHANGED <<stopCh, closes, panicked, onceDone, onceMu, stopRet>>
    /\ UNCHANGED <<executeImmediate, cancelled>>
    /\ UNCHANGED startVars /\ UNCHANGED tickVars

\* doSlow: o.m.Lock()
StopOnceLock ==
    /\ stopAt["lock"] > 0
    /\ ~onceMu
    /\ onceMu' = TRUE
    /\ stopAt' = Moved("lock", "locked")
    /\ UNCHANGED <<stopCh, closes, panicked, onceDone, stopRet>>
    /\ UNCHANGED <<executeImmediate, cancelled>>
    /\ UNCHANGED startVars /\ UNCHANGED tickVars

\* StopClose without the once guard: every caller closes the channel
StopClose_Unguarded ==
    /\ stopAt["locked"] > 0
    /\ closes' = closes + 1
    /\ IF stopCh = "closed"
         THEN panicked' = TRUE /\ UNCHANGED stopCh
         ELSE stopCh' = "closed" /\ UNCHANGED panicked
    /\ stopAt' = Moved("locked", "store")
    /\ UNCHANGED <<onceDone, onceMu, stopRet>>
    /\ UNCHANGED <<executeImmediate, cancelled>>
    /\ UNCHANGED startVars /\ UNCHANGED tickVars

\* StopClose with an empty once body: the channel is never closed
StopClose_NoClose ==
    /\ stopAt["locked"] > 0
    /\ stopAt' = Moved("locked", IF onceDone THEN "unlock" ELSE "store")
    /\ UNCHANGED <<stopCh, closes, panicked>>
    /\ UNCHANGED <<onceDone, onceMu, stopRet>>
    /\ UNCHANGED <<executeImmediate, cancelled>>
    /\ UNCHANGED startVars /\ UNCHANGED tickVars

\* StopClose with a once body that also cancels the context handed to the action
StopClose_CancelsCtx ==
    /\ stopAt["locked"] > 0
    /\ IF onceDone
         THEN /\ stopAt' = Moved("locked", "unlock")
              /\ UNCHANGED <<stopCh, closes, panicked, cancelled>>
         ELSE /\ closes' = closes + 1
              /\ cancelled' = TRUE
              /\ IF stopCh = "closed"
                   THEN panicked' = TRUE /\ UNCHANGED stopCh
                   ELSE stopCh' = "closed" /\ UNCHANGED panicked
              /\ stopAt' = Moved("locked", "store")
    /\ UNCHANGED <<onceDone, onceMu, stopRet>>
    /\ UNCHANGED executeImmediate
    /\ UNCHANGED startVars /\ UNCHANGED tickVars

\* doSlow: if o.done.Load() == 0 { f() }, f being close(j.stopCh);
\* closing a closed channel panics
StopClose ==
    /\ stopAt["locked"] > 0
    /\ IF onceDone
         THEN /\ stopAt' = Moved("locked", "unlock")
              /\ UNCHANGED <<stopCh, closes, panicked>>
         ELSE /\ closes' = closes + 1
              /\ IF stopCh = "closed"
                   THEN panicked' = TRUE /\ UNCHANGED stopCh
                   ELSE stopCh' = "closed" /\ UNCHANGED panicked
              /\ stopAt' = Moved("locked", "store")
    /\ UNCHANGED <<onceDone, onceMu, stopRet>>
    /\ UNCHANGED <<executeImmediate, cancelled>>
    /\ UNCHANGED startVars /\ UNCHANGED tickVars

\* doSlow: defer o.done.Store(1)
StopOnceStore ==
    /\ stopAt["store"] > 0
    /\ onceDone' = TRUE
    /\ stopAt' = Moved("store", "unlock")
    /\ UNCHANGED <<stopCh, closes, panicked, onceMu, stopRet>>
    /\ UNCHANGED <<executeImmediate, cancelled>>
    /\ UNCHANGED startVars /\ UNCHANGED tickVars

\* doSlow: defer o.m.Unlock()
StopOnceUnlock ==
    /\ stopAt["unlock"] > 0
    /\ onceMu' = FALSE
    /\ stopAt' = Moved("unlock", "return")
    /\ UNCHANGED <<stopCh, closes, panicked, onceDone, stopRet>>
    /\ UNCHANGED <<executeImmediate, cancelled>>
    /\ UNCHANGED startVars /\ UNCHANGED tickVars

\* StopReturn joining the in-flight invocations (j.wg.Wait()) before it returns
StopReturn_Join ==
    /\ stopAt["return"] > 0
    /\ wg = 0
    /\ stopRet' = stopRet \cup {"nil"}
    /\ stopAt' = Moved("return", "done")
    /\ UNCHANGED <<stopCh, closes, panicked, onceDone, onceMu>>
    /\ UNCHANGED <<executeImmediate, cancelled>>
    /\ UNCHANGED startVars /\ UNCHANGED tickVars

\* return nil
StopReturn ==
    /\ stopAt["return"] > 0
    /\ stopRet' = stopRet \cup {"nil"}
    /\ stopAt' = Moved("return", "done")
    /\ UNCHANGED <<stopCh, closes, panicked, onceDone, onceMu>>
    /\ UNCHANGED <<executeImmediate, cancelled>>
    /\ UNCHANGED startVars /\ UNCHANGED tickVars

\* ------------------------------------------------------- specification

\* every executeFn call returns; a panic ends the process: nothing runs after it
Next ==
    /\ ~panicked
    /\ ~crashed
    /\ UNCHANGED faultVars
    /\ UNCHANGED pairVars
    /\ UNCHANGED pkgVars
    /\ \/ StartCall
       \/ StartImmediate
       \/ NewTicker
       \/ SelectCtx
       \/ WaitCtx
       \/ SelectStop
       \/ WaitStop
       \/ SelectTick
       \/ TickAdd
       \/ TickInvoke
       \/ TickFnReturn
       \/ TickWgDone
       \/ ImmInvoke
       \/ ImmFnReturn
       \/ ImmWgDone
       \/ TickElapse
       \/ Cancel
       \/ StopCall
       \/ StopOnceDo
       \/ StopOnceLock
       \/ StopClose
       \/ StopOnceStore
       \/ StopOnceUnlock
       \/ StopReturn

Spec == Init /\ [][Next]_vars


\* --------------------------------------------- executeFn panics (no recover)

\* j.executeFn(ctx) panics in the ticker case: the closure is unwound
TickFnPanic ==
    /\ pc = "tickExec"
    /\ activeTick' = activeTick - 1
    /\ faults' = faults \cup {"tick"}
    /\ pc' = "tickPanic"
    /\ UNCHANGED <<executeImmediate, preTriggered, ret, immPc, wg, waited, raced, tickerOn,
                   tickPending, ticksConsumed, activeImm, count, cancelled,
                   crashed>>
    /\ UNCHANGED stopVars /\ UNCHANGED tickVars

\* TickFnPanic with a recover() in the closure: the loop goes on
TickPanicUnwind_Recovered ==
    /\ pc = "tickPanic"
    /\ wg' = wg - 1
    /\ pc' = "select"
    /\ UNCHANGED <<executeImmediate, preTriggered, ret, immPc, waited, raced, tickerOn,
                   tickPending, ticksConsumed, activeImm, activeTick, count,
                   cancelled, faults, crashed>>
    /\ UNCHANGED stopVars /\ UNCHANGED tickVars

\* the panic unwinds Start: deferred j.wg.Done() and ticker.Stop() run, Start
\* does not return to its caller
TickPanicUnwind ==
    /\ pc = "tickPanic"
    /\ wg' = wg - 1
    /\ tickerOn' = FALSE
    /\ pc' = "dead"
    /\ UNCHANGED <<executeImmediate, preTriggered, ret, immPc, waited, raced, tickPending,
                   ticksConsumed, activeImm, activeTick, count, cancelled,
                   faults, crashed>>
    /\ UNCHANGED stopVars /\ UNCHANGED tickVars

\* j.executeFn(ctx) panics in the goroutine of the immediate invocation
ImmFnPanic ==
    /\ immPc = "exec"
    /\ activeImm' = activeImm - 1
    /\ faults' = faults \cup {"imm"}
    /\ immPc' = "immPanic"
    /\ UNCHANGED <<executeImmediate, preTriggered, pc, ret, wg, waited, raced, tickerOn,
                   tickPending, ticksConsumed, activeTick, count, cancelled,
                   crashed>>
    /\ UNCHANGED stopVars /\ UNCHANGED tickVars

\* the panic unwinds the goroutine: deferred j.wg.Done() runs
ImmPanicUnwind ==
    /\ immPc = "immPanic"
    /\ wg' = wg - 1
    /\ immPc' = "dead"
    /\ UNCHANGED <<executeImmediate, preTriggered, pc, ret, waited, raced, tickerOn,
                   tickPending, ticksConsumed, activeImm, activeTick, count,
                   cancelled, faults, crashed>>
    /\ UNCHANGED stopVars /\ UNCHANGED tickVars

\* a goroutine has unwound with the panic unrecovered: the runtime prints it
\* and exits the process; until then the other goroutines keep running
Crash ==
    /\ pc = "dead" \/ immPc = "dead"
    /\ crashed' = TRUE
    /\ UNCHANGED <<executeImmediate, preTriggered, cancelled, faults>>
    /\ UNCHANGED startVars /\ UNCHANGED stopVars /\ UNCHANGED tickVars

\* the job with an action that may panic
FaultNext ==
    \/ Next
    \/ /\ ~panicked
       /\ ~crashed
       /\ UNCHANGED pairVars
       /\ UNCHANGED pkgVars
       /\ \/ TickFnPanic
          \/ TickPanicUnwind
          \/ ImmFnPanic
          \/ ImmPanicUnwind
          \/ Crash

FaultSpec == Init /\ [][FaultNext]_vars


\* ------------------------------------------------- two job instances

\* the variables of the single-instance model
singleVars == <<executeImmediate, cancelled, startVars, stopVars, tickVars,
                faultVars>>

\* the stop signal of instance i: the state of the channel its stopCh refers to
StopSignal(i) == chans[jobs[i].stopCh]

\* Stop calls begun on instance i
JobStopCalls(i) ==
    jobs[i].stopAt["lock"] + jobs[i].stopAt["locked"] + jobs[i].stopAt["store"]
    + jobs[i].stopAt["unlock"] + jobs[i].stopAt["done"]
    + jobs[i].stopAt["panicked"]

\* goroutines that have not called Stop yet; each calls it once, on either
\* instance
PairIdle == NumStoppers - (JobStopCalls(1) + JobStopCalls(2))

\* one caller of Stop on a job moves from position p to position q
JobMoved(st, p, q) == [st EXCEPT ![p] = @ - 1, ![q] = @ + 1]

\* Start of instance i from its call to the select (lines 37-50): with the
\* flag set, wg.Add(1) and the go statement make the goroutine runnable
JobStart(i) ==
    /\ jobs[i].pc = "idle"
    /\ jobs' = [jobs EXCEPT ![i] =
                  IF @.executeImmediate
                    THEN [@ EXCEPT !.pc = "select", !.wg = @ + 1,
                                   !.immPc = "spawned"]
                    ELSE [@ EXCEPT !.pc = "select"]]
    /\ UNCHANGED <<chans, jobsPanicked, jobsCrashed>>

\* the goroutine of the immediate invocation of instance i is scheduled and
\* enters j.executeFn(ctx)
JobImmInvoke(i) ==
    /\ jobs[i].immPc = "spawned"
    /\ jobs' = [jobs EXCEPT ![i] = [@ EXCEPT !.immPc = "exec", !.count = @ + 1]]
    /\ UNCHANGED <<chans, jobsPanicked, jobsCrashed>>

\* the immediate invocation of instance i returns: deferred wg.Done
JobImmReturn(i) ==
    /\ jobs[i].immPc = "exec"
    /\ jobs' = [jobs EXCEPT ![i] = [@ EXCEPT !.immPc = "done", !.wg = @ - 1]]
    /\ UNCHANGED <<chans, jobsPanicked, jobsCrashed>>

\* case <-ticker.C of instance i: wg.Add(1) and executeFn entered
JobTick(i) ==
    /\ jobs[i].pc = "select"
    /\ jobs[i].count < MaxTicks
    /\ jobs' = [jobs EXCEPT ![i] =
                  [@ EXCEPT !.pc = "exec", !.wg = @ + 1, !.count = @ + 1]]
    /\ UNCHANGED <<chans, jobsPanicked, jobsCrashed>>

\* the tick-triggered invocation of instance i returns: deferred wg.Done
JobTickReturn(i) ==
    /\ jobs[i].pc = "exec"
    /\ jobs' = [jobs EXCEPT ![i] = [@ EXCEPT !.pc = "select", !.wg = @ - 1]]
    /\ UNCHANGED <<chans, jobsPanicked, jobsCrashed>>

\* case <-j.stopCh of instance i
JobSelectStop(i) ==
    /\ jobs[i].pc = "select"
    /\ StopSignal(i) = "closed"
    /\ jobs' = [jobs EXCEPT ![i] = [@ EXCEPT !.pc = "waitStop"]]
    /\ UNCHANGED <<chans, jobsPanicked, jobsCrashed>>

\* case <-ctx.Done() of instance i
JobSelectCtx(i) ==
    /\ jobs[i].pc = "select"
    /\ jobs[i].ctxDone
    /\ jobs' = [jobs EXCEPT ![i] = [@ EXCEPT !.pc = "waitCtx"]]
    /\ UNCHANGED <<chans, jobsPanicked, jobsCrashed>>

\* j.wg.Wait() of instance i returns and Start returns nil or ctx.Err()
JobReturn(i) ==
    /\ jobs[i].pc \in {"waitStop", "waitCtx"}
    /\ jobs[i].wg = 0
    /\ jobs' = [jobs EXCEPT ![i] =
                  [@ EXCEPT !.pc = "returned",
                            !.ret = IF jobs[i].pc = "waitStop" THEN "nil"
                                                               ELSE "ctxErr"]]
    /\ UNCHANGED <<chans, jobsPanicked, jobsCrashed>>

\* a goroutine calls Stop on instance i: j.stopOnce.Do on the instance's own
\* once, whose fast path (o.done.Load()) sends the caller to doSlow or lets
\* Stop return nil
JobStopCall(i) ==
    /\ PairIdle > 0
    /\ jobs' = [jobs EXCEPT ![i] =
                  [@ EXCEPT !.stopAt =
                      [@ EXCEPT ![IF jobs[i].onceDone THEN "done" ELSE "lock"]
                                    = @ + 1]]]
    /\ UNCHANGED <<chans, jobsPanicked, jobsCrashed>>

\* doSlow of instance i: o.m.Lock(), a wait while another caller holds it
JobOnceLock(i) ==
    /\ jobs[i].stopAt["lock"] > 0
    /\ ~jobs[i].onceMu
    /\ jobs' = [jobs EXCEPT ![i] =
                  [@ EXCEPT !.onceMu = TRUE,
                            !.stopAt = JobMoved(@, "lock", "locked")]]
    /\ UNCHANGED <<chans, jobsPanicked, jobsCrashed>>

\* doSlow of instance i: if o.done.Load() == 0 { f() }, f being
\* close(j.stopCh); closing a closed channel panics, and the panic unwinds
\* through doSlow's deferred calls
JobStopClose(i) ==
    /\ jobs[i].stopAt["locked"] > 0
    /\ IF jobs[i].onceDone
         THEN /\ jobs' = [jobs EXCEPT ![i] =
                            [@ EXCEPT !.stopAt = JobMoved(@, "locked", "unlock")]]
              /\ UNCHANGED <<chans, jobsPanicked, jobsCrashed>>
         ELSE /\ jobs' = [jobs EXCEPT ![i] =
                            [@ EXCEPT !.closes = @ + 1,
                                      !.panicking = (StopSignal(i) = "closed"),
                                      !.stopAt = JobMoved(@, "locked", "store")]]
              /\ IF StopSignal(i) = "closed"
                   THEN jobsPanicked' = TRUE /\ UNCHANGED chans
                   ELSE /\ chans' = [chans EXCEPT ![jobs[i].stopCh] = "closed"]
                        /\ UNCHANGED jobsPanicked
              /\ UNCHANGED jobsCrashed

\* doSlow of instance i: defer o.done.Store(1), run on return and on panic
JobOnceStore(i) ==
    /\ jobs[i].stopAt["store"] > 0
    /\ jobs' = [jobs EXCEPT ![i] =
                  [@ EXCEPT !.onceDone = TRUE,
                            !.stopAt = JobMoved(@, "store", "unlock")]]
    /\ UNCHANGED <<chans, jobsPanicked, jobsCrashed>>

\* doSlow of instance i: defer o.m.Unlock(), run on return and on panic;
\* then Stop returns nil, or the panic leaves Stop towards its caller
JobOnceUnlock(i) ==
    /\ jobs[i].stopAt["unlock"] > 0
    /\ jobs' = [jobs EXCEPT ![i] =
                  [@ EXCEPT !.onceMu = FALSE,
                            !.panicking = FALSE,
                            !.stopAt = JobMoved(@, "unlock",
                                                IF jobs[i].panicking
                                                  THEN "panicked" ELSE "done")]]
    /\ UNCHANGED <<chans, jobsPanicked, jobsCrashed>>

\* a step of a Stop call on instance i
JobStop(i) ==
    \/ JobStopCall(i)
    \/ JobOnceLock(i)
    \/ JobStopClose(i)
    \/ JobOnceStore(i)
    \/ JobOnceUnlock(i)

\* the owner of the context of instance i's Start cancels it
JobCancel(i) ==
    /\ ~jobs[i].ctxDone
    /\ jobs' = [jobs EXCEPT ![i] = [@ EXCEPT !.ctxDone = TRUE]]
    /\ UNCHANGED <<chans, jobsPanicked, jobsCrashed>>

\* a step of instance i
JobStep(i) ==
    \/ JobStart(i)
    \/ JobImmInvoke(i)
    \/ JobImmReturn(i)
    \/ JobTick(i)
    \/ JobTickReturn(i)
    \/ JobSelectStop(i)
    \/ JobSelectCtx(i)
    \/ JobReturn(i)
    \/ JobStopCall(i)
    \/ JobOnceLock(i)
    \/ JobStopClose(i)
    \/ JobOnceStore(i)
    \/ JobOnceUnlock(i)
    \/ JobCancel(i)

\* the panic that left Stop is not recovered by the caller: the runtime ends
\* the process (a caller that recovers goes on, and this step never happens)
JobsCrash ==
    /\ ~jobsCrashed
    /\ \E i \in Jobs : jobs[i].stopAt["panicked"] > 0
    /\ jobsCrashed' = TRUE
    /\ UNCHANGED <<chans, jobs, jobsPanicked>>

PairNext ==
    /\ ~jobsCrashed
    /\ UNCHANGED singleVars
    /\ UNCHANGED pkgVars
    /\ \E i \in Jobs : JobStep(i)

\* the two instances, the single-instance model at rest
PairSpecInit ==
    /\ JobInitWith(FALSE)
    /\ PairInit
    /\ SSLInit(FALSE)
    /\ TxInit

PairSpec == PairSpecInit /\ [][PairNext]_vars

\* --------------------------------- by-value copies of one TickerJob value

\* the value newTickerJob returns (value 1) and the place a later copy of
\* it will occupy (value 2, absent until the copy is made)
CopyInit ==
    /\ JobInitWith(FALSE)
    /\ \E imm \in BOOLEAN :
          jobs = [i \in Jobs |->
                    IF i = 1 THEN NewJob(1, imm)
                             ELSE [NewJob(1, imm) EXCEPT !.pc = "absent"]]
    /\ chans = [c \in Jobs |-> "open"]
    /\ jobsPanicked = FALSE
    /\ jobsCrashed = FALSE
    /\ SSLInit(FALSE)
    /\ TxInit

\* k := i (or an assignment into an embedding struct): every field is copied
\* by value, so the copy refers to the same channel and holds its own
\* sync.Once and sync.WaitGroup in the state they had; no Start and no Stop
\* has been called on the copy
JobCopy(i, k) ==
    /\ jobs[i].pc # "absent"
    /\ jobs[k].pc = "absent"
    /\ jobs' = [jobs EXCEPT ![k] =
                  [jobs[i] EXCEPT !.pc = "idle", !.immPc = "none",
                                  !.ret = "none", !.ctxDone = FALSE,
                                  !.count = 0, !.closes = 0,
                                  !.panicking = FALSE,
                                  !.stopAt = [p \in StopRun |-> 0]]]
    /\ UNCHANGED <<chans, jobsPanicked, jobsCrashed>>

CopyNext ==
    /\ ~jobsCrashed
    /\ UNCHANGED singleVars
    /\ UNCHANGED pkgVars
    /\ \/ JobCopy(1, 2)
       \/ \E i \in Jobs : jobs[i].pc # "absent" /\ JobStep(i)
       \/ JobsCrash

CopySpec == CopyInit /\ [][CopyNext]_vars


\* ------------------------------------------ package rocketmq: configureSSL

\* a constructor calls configureSSL(enable)
SSLCall(c, enable) ==
    /\ sslPc[c] = "idle"
    /\ sslPc' = [sslPc EXCEPT ![c] = "do"]
    /\ sslArg' = [sslArg EXCEPT ![c] = enable]
    /\ sslLate' = [sslLate EXCEPT ![c] = \E d \in SSLCallers : sslPc[d] = "done"]
    /\ UNCHANGED <<sslFlag, sslDone, sslMu, sslWinner>>

\* sslOnce.Do: the fast path, if o.done.Load() == 0 { o.doSlow(f) }
SSLOnceDo(c) ==
    /\ sslPc[c] = "do"
    /\ sslPc' = [sslPc EXCEPT ![c] = IF sslDone THEN "done" ELSE "lock"]
    /\ UNCHANGED <<sslFlag, sslDone, sslMu, sslArg, sslLate, sslWinner>>

\* doSlow: o.m.Lock()
SSLLock(c) ==
    /\ sslPc[c] = "lock"
    /\ ~sslMu
    /\ sslMu' = TRUE
    /\ sslPc' = [sslPc EXCEPT ![c] = "locked"]
    /\ UNCHANGED <<sslFlag, sslDone, sslArg, sslLate, sslWinner>>

\* SSLBody without the once: every call assigns the flag
SSLBody_Unguarded(c) ==
    /\ sslPc[c] = "locked"
    /\ sslFlag' = sslArg[c]
    /\ sslWinner' = IF sslWinner = "none" THEN c ELSE sslWinner
    /\ sslPc' = [sslPc EXCEPT ![c] = "store"]
    /\ UNCHANGED <<sslDone, sslMu, sslArg, sslLate>>

\* doSlow: if o.done.Load() == 0 { f() }, f being rmq.EnableSsl = enable
SSLBody(c) ==
    /\ sslPc[c] = "locked"
    /\ IF sslDone
         THEN /\ sslPc' = [sslPc EXCEPT ![c] = "unlock"]
              /\ UNCHANGED <<sslFlag, sslWinner>>
         ELSE /\ sslFlag' = sslArg[c]
              /\ sslWinner' = c
              /\ sslPc' = [sslPc EXCEPT ![c] = "store"]
    /\ UNCHANGED <<sslDone, sslMu, sslArg, sslLate>>

\* doSlow: defer o.done.Store(1)
SSLStore(c) ==
    /\ sslPc[c] = "store"
    /\ sslDone' = TRUE
    /\ sslPc' = [sslPc EXCEPT ![c] = "unlock"]
    /\ UNCHANGED <<sslFlag, sslMu, sslArg, sslLate, sslWinner>>

\* doSlow: defer o.m.Unlock(); configureSSL returns
SSLUnlock(c) ==
    /\ sslPc[c] = "unlock"
    /\ sslMu' = FALSE
    /\ sslPc' = [sslPc EXCEPT ![c] = "done"]
    /\ UNCHANGED <<sslFlag, sslDone, sslArg, sslLate, sslWinner>>

\* rmq.EnableSsl holds either value before the first call
SSLSpecInit ==
    /\ JobInit
    /\ PairInit
    /\ TxInit
    /\ \E f \in BOOLEAN : SSLInit(f)

SSLNext ==
    /\ UNCHANGED singleVars
    /\ UNCHANGED pairVars
    /\ UNCHANGED txVars
    /\ \E c \in SSLCallers :
          \/ \E enable \in BOOLEAN : SSLCall(c, enable)
          \/ SSLOnceDo(c)
          \/ SSLLock(c)
          \/ SSLBody(c)
          \/ SSLStore(c)
          \/ SSLUnlock(c)

SSLSpec == SSLSpecInit /\ [][SSLNext]_vars


\* ------------------------------------------ package data: Data.DB, Data.InTx

\* context.WithValue(ctx, contextTxKey{}, tx): the entry InTx adds for
\* transaction t
TxEntry(t) == [key |-> "tx", tx |-> t]

\* an entry added under any other key (or a derivation that adds none of
\* contextTxKey)
OtherEntry == [key |-> "other", tx |-> 0]

\* ctx.Value(contextTxKey{}).(*gorm.DB): the innermost value stored under the
\* key, 0 when the chain holds none (ok = false)
RECURSIVE TxValue(_)
TxValue(ctx) ==
    IF ctx = <<>> THEN 0
    ELSE IF ctx[Len(ctx)].key = "tx" THEN ctx[Len(ctx)].tx
    ELSE TxValue(SubSeq(ctx, 1, Len(ctx) - 1))

\* Data.DB(ctx): the transaction found in ctx, else d.db.WithContext(ctx)
DB(ctx) ==
    IF TxValue(ctx) # 0
      THEN [kind |-> "tx", tx |-> TxValue(ctx)]
      ELSE [kind |-> "default", tx |-> 0]

\* the context the running code holds: fn's current one inside InTx, the
\* caller's outside
CurCtx == IF txStack = <<>> THEN rootCtx ELSE txStack[Len(txStack)].cur

\* the running code replaces the context it holds by c
SetCur(c) ==
    IF txStack = <<>>
      THEN rootCtx' = c /\ UNCHANGED txStack
      ELSE /\ txStack' = [txStack EXCEPT ![Len(txStack)] = [@ EXCEPT !.cur = c]]
           /\ UNCHANGED rootCtx

\* ctx is derived from base: base's chain is its prefix
DerivedFrom(ctx, base) ==
    /\ Len(base) <= Len(ctx)
    /\ SubSeq(ctx, 1, Len(base)) = base

\* the running code derives a context from the one it holds
TxWithValue ==
    /\ Len(CurCtx) < MaxCtxLen
    /\ SetCur(Append(CurCtx, OtherEntry))
    /\ UNCHANGED <<txBegun, dbCall>>

\* fn goes on with a context that is not derived from the one it was given
\* (context.Background())
TxBackground ==
    /\ txStack # <<>>
    /\ CurCtx # <<>>
    /\ SetCur(<<>>)
    /\ UNCHANGED <<txBegun, dbCall>>

\* d.InTx(ctx, fn) with the context held: d.db.WithContext(ctx).Transaction
\* begins a transaction on the default database and calls
\* fn(context.WithValue(ctx, contextTxKey{}, tx))
TxInTx ==
    /\ txBegun < MaxTx
    /\ Len(CurCtx) < MaxCtxLen
    /\ txBegun' = txBegun + 1
    /\ txStack' = Append(txStack,
                         [tx |-> txBegun + 1,
                          fnCtx |-> Append(CurCtx, TxEntry(txBegun + 1)),
                          cur |-> Append(CurCtx, TxEntry(txBegun + 1))])
    /\ UNCHANGED <<rootCtx, dbCall>>

\* a repository calls d.DB(ctx) with the context held
TxDB ==
    /\ dbCall' = [made |-> TRUE, ctx |-> CurCtx,
                  kind |-> DB(CurCtx).kind, tx |-> DB(CurCtx).tx]
    /\ UNCHANGED <<txStack, txBegun, rootCtx>>

\* fn returns: Transaction commits or rolls back and InTx returns
TxReturn ==
    /\ txStack # <<>>
    /\ txStack' = SubSeq(txStack, 1, Len(txStack) - 1)
    /\ UNCHANGED <<txBegun, rootCtx, dbCall>>

TxNext ==
    /\ UNCHANGED singleVars
    /\ UNCHANGED pairVars
    /\ UNCHANGED sslVars
    /\ \/ TxWithValue
       \/ TxBackground
       \/ TxInTx
       \/ TxDB
       \/ TxReturn

TxSpec == Init /\ [][TxNext]_vars

\* steps of Start's goroutine other than the choice made by the select
LoopStep ==
    \/ StartImmediate
    \/ NewTicker
    \/ WaitCtx
    \/ WaitStop
    \/ TickAdd
    \/ TickInvoke
    \/ TickFnReturn
    \/ TickWgDone

\* steps of the goroutine of the immediate invocation
ImmStep ==
    \/ ImmInvoke
    \/ ImmFnReturn
    \/ ImmWgDone

\* a step A of the job when no action panics and no other instance exists
InJob(A) == A /\ UNCHANGED faultVars /\ UNCHANGED pairVars /\ UNCHANGED pkgVars

\* Fair scheduling with terminating invocations: every goroutine that can
\* run does run and every executeFn call returns (weak fairness).  A select
\* with several ready cases picks one of them pseudo-randomly, so a case that
\* is ready at every visit of the select is eventually picked (strong
\* fairness of the stop and the context case).  The ticker, the owner of the
\* context and the callers of Stop and Start are under no obligation.
FairSpec ==
    /\ Spec
    /\ WF_vars(InJob(LoopStep))
    /\ WF_vars(InJob(ImmStep))
    /\ WF_vars(InJob(StopOnceDo))
    /\ WF_vars(InJob(StopOnceLock))
    /\ WF_vars(InJob(StopClose))
    /\ WF_vars(InJob(StopOnceStore))
    /\ WF_vars(InJob(StopOnceUnlock))
    /\ WF_vars(InJob(StopReturn))
    /\ SF_vars(InJob(SelectStop))
    /\ SF_vars(InJob(SelectCtx))

\* ---------------------------------------------------------------- claims

\* number of executeFn calls that have been entered and have not returned
Executing == activeImm + activeTick

\* C1 (as stated): in every reachable state at most one invocation of the
\* action is executing, with executeImmediate false or true.
C1_AtMostOneExecuting == Executing <= 1

\* C1 (amended): at most one tick-triggered invocation and at most one
\* immediate invocation are executing, also when an execution outlasts the
\* interval; with executeImmediate=false that is at most one invocation in
\* all, with executeImmediate=true the immediate invocation may overlap one
\* tick-triggered invocation.
C1_AtMostOnePerPath ==
    /\ activeTick <= 1
    /\ activeImm <= 1
    /\ (~executeImmediate => Executing <= 1)

\* an execution that has outlasted two intervals: one tick pending, one dropped
C1_Witness ==
    /\ ~executeImmediate
    /\ activeTick = 1
    /\ tickPending
    /\ ticksDropped >= 1

\* C2: once Start has returned, no invocation it started is executing or
\* still to run, and the in-flight counter is zero.
C2_ReturnedImpliesJoined ==
    pc = "returned" =>
        /\ Executing = 0
        /\ immPc \in {"none", "done"}
        /\ wg = 0

\* Start left the loop through the stop case while the immediate invocation
\* was in flight, waited for it, and has returned nil
C2_Witness ==
    /\ pc = "returned"
    /\ ret = "nil"
    /\ waited
    /\ immPc = "done"

\* C3: under fair scheduling with terminating invocations, once Stop has
\* been called on a job whose Start is running, Start eventually returns.
C3_StopLeadsToReturn ==
    (stopCalls >= 1 /\ pc # "idle") ~> (pc = "returned")

\* Start returned nil after several Stop calls and several ticks
C3_Witness ==
    /\ pc = "returned"
    /\ ret = "nil"
    /\ stopCalls >= 2
    /\ ticksConsumed >= 2

\* C4: over all Stop calls the channel is closed at most once and exactly
\* once as soon as a Stop call has returned; no close panics; callers that
\* wait for the once's mutex wait for one Stop call that holds it and is on
\* its way to releasing it.
C4_ClosedExactlyOnce ==
    /\ closes <= 1
    /\ ~panicked
    /\ (stopCh = "closed" <=> closes = 1)
    /\ (stopAt["done"] > 0 => closes = 1)
    /\ stopAt["locked"] + stopAt["store"] + stopAt["unlock"]
           = (IF onceMu THEN 1 ELSE 0)

\* interleaved Stop calls: a caller that passed the fast path before done was
\* stored finds the once done under the mutex
C4_Witness ==
    /\ closes = 1
    /\ onceDone
    /\ stopAt["locked"] = 1

\* a Stop call at position p can take its next step
StopCanStep(p) ==
    stopAt[p] > 0 /\
        CASE p = "do" -> ENABLED StopOnceDo
          [] p = "lock" -> ENABLED StopOnceLock
          [] p = "locked" -> ENABLED StopClose
          [] p = "store" -> ENABLED StopOnceStore
          [] p = "unlock" -> ENABLED StopOnceUnlock
          [] p = "return" -> ENABLED StopReturn
          [] OTHER -> FALSE

\* C5: every Stop call returns nil, and a Stop call in progress can always
\* take its next step, or waits for the once's mutex held by another Stop
\* call that can, whatever Start and the invocations are doing.
C5_StopReturnsNilUnblocked ==
    /\ stopRet \subseteq {"nil"}
    /\ (stopAt["done"] > 0 => stopRet = {"nil"})
    /\ \A p \in StopPositions \ {"idle", "done"} :
          stopAt[p] > 0 =>
              \/ StopCanStep(p)
              \/ /\ p = "lock"
                 /\ \E q \in {"locked", "store", "unlock"} : StopCanStep(q)

\* while a tick-triggered invocation is executing, one Stop call has returned
\* nil and another has reached its return statement
C5_Witness ==
    /\ pc = "tickExec"
    /\ activeTick = 1
    /\ stopAt["done"] >= 1
    /\ stopAt["return"] >= 1
    /\ stopRet = {"nil"}

\* C6: Start has returned only if Stop was called or the context was
\* cancelled; nil only if the stop channel is closed, the cancellation error
\* only if the context is cancelled.
C6_ReturnCause ==
    pc = "returned" =>
        /\ ret \in {"nil", "ctxErr"}
        /\ (stopCalls >= 1 \/ cancelled)
        /\ (ret = "nil" => stopCh = "closed")
        /\ (ret = "ctxErr" => cancelled)

\* Start returned nil after at least one invocation, the context not cancelled
C6_Witness ==
    /\ pc = "returned"
    /\ ret = "nil"
    /\ ~cancelled
    /\ count >= 1

\* Start has been called and has not left the loop of lines 51-68
InLoop ==
    pc \in {"immediate", "ticker", "select", "tickAdd", "tickCall", "tickExec", "tickDone"}

\* C7 (as stated): under fair scheduling, once the context of a Start that
\* is still in its loop is cancelled, Start returns the context's
\* cancellation error, not nil.
C7_CancelReturnsCtxErr ==
    (cancelled /\ InLoop) ~> (pc = "returned" /\ ret = "ctxErr")

\* C7 (amended): under fair scheduling a cancelled Start returns; it returns
\* the cancellation error, not nil, unless the stop signal is triggered as
\* well; the loop leaves through the stop case only with the stop channel
\* closed, and once it has left through the context case Start returns the
\* cancellation error whatever Stop does afterwards.
C7_CtxErrUnlessStopTaken ==
    /\ (cancelled /\ pc # "idle") ~> (pc = "returned")
    /\ [](pc = "returned" /\ stopCh = "open" => ret = "ctxErr")
    /\ [](pc = "waitStop" => stopCh = "closed")
    /\ [](pc = "waitCtx" => cancelled)
    /\ [][pc = "waitCtx" /\ pc' # "waitCtx" => pc' = "returned" /\ ret' = "ctxErr"]_vars
    /\ [](pc = "returned" /\ ret = "ctxErr" => cancelled)

\* Start returned the cancellation error, Stop never called
C7_Witness ==
    /\ pc = "returned"
    /\ ret = "ctxErr"
    /\ cancelled
    /\ stopCalls = 0

\* C8: with executeImmediate=true the immediate invocation is launched
\* before the ticker is created and the loop waits, whatever the ticks; it
\* is the only invocation not paid for by a consumed tick; when Start has
\* returned and no tick elapsed, the action was invoked exactly once and
\* that invocation has completed.
C8_ImmediateOnce ==
    executeImmediate =>
        /\ (pc \notin {"idle", "immediate"} => immPc # "none")
        /\ (immPc = "spawned" => wg >= 1)
        /\ count <= ticksConsumed + 1
        /\ (immPc \in {"exec", "fnDone", "done"} => count >= 1)
        /\ (pc = "returned" /\ ticksElapsed = 0 => count = 1 /\ immPc = "done")

\* Start with executeImmediate=true returned, no tick elapsed, one invocation
C8_Witness ==
    /\ executeImmediate
    /\ pc = "returned"
    /\ ticksElapsed = 0
    /\ count = 1

\* C9: with executeImmediate=false no goroutine is launched and no invocation
\* starts before the loop has consumed a tick; when Start has returned and no
\* tick elapsed, the action was never invoked.
C9_NoInvocationBeforeTick ==
    ~executeImmediate =>
        /\ immPc = "none"
        /\ (ticksConsumed = 0 => count = 0)
        /\ (pc = "returned" /\ ticksElapsed = 0 => count = 0)

\* Start with executeImmediate=false ran its loop and returned, no tick elapsed
C9_Witness ==
    /\ ~executeImmediate
    /\ pc = "returned"
    /\ ret = "nil"
    /\ ticksElapsed = 0
    /\ count = 0

\* C10 (as stated, read at a moment the loop has caught up: it waits and no
\* tick is pending): with neither Stop nor cancellation, after k elapsed
\* intervals the action has been invoked at least k times.
C10_AtLeastKInvocations ==
    (stopCalls = 0 /\ ~cancelled /\ pc = "select" /\ ~tickPending) =>
        count >= ticksElapsed

\* C10 (amended): with neither Stop nor cancellation, after k elapsed
\* intervals the action has been invoked at least k - d times, d being the
\* number of ticks dropped because they elapsed while an earlier tick was
\* still pending, less the one tick that is pending or just consumed and
\* about to be executed.
C10_AtLeastKMinusDropped ==
    (stopCalls = 0 /\ ~cancelled) =>
        count + ticksDropped
              + (IF tickPending THEN 1 ELSE 0)
              + (IF pc \in {"tickAdd", "tickCall"} THEN 1 ELSE 0)
            >= ticksElapsed

\* three intervals elapsed, the first execution outlasted two of them: one
\* tick dropped, two invocations, the loop waiting again
C10_Witness ==
    /\ ~executeImmediate
    /\ stopCalls = 0
    /\ ~cancelled
    /\ pc = "select"
    /\ ~tickPending
    /\ ticksElapsed >= 3
    /\ ticksDropped >= 1
    /\ count = ticksElapsed - ticksDropped

\* C11 (as stated): once the stop signal is triggered, a loop at its wait
\* point consumes no tick, even when one is pending.
C11_NoTickAfterStop ==
    [][(pc = "select" /\ stopCh = "closed") => pc' # "tickAdd"]_vars

\* C11 (amended): at a wait point with the stop signal triggered the stop
\* case is ready, so Start can exit there, and the tick case is ready only
\* when a tick is pending: the select may then take either, and a
\* tick-triggered invocation can still start after the stop signal.
C11_StopReadyAtWaitPoint ==
    (pc = "select" /\ stopCh = "closed") =>
        /\ ENABLED SelectStop
        /\ (tickPending <=> ENABLED SelectTick)

\* the loop is at its wait point after a tick-triggered invocation, the stop
\* signal is triggered and a tick is pending
C11_Witness ==
    /\ pc = "select"
    /\ stopCh = "closed"
    /\ tickPending
    /\ ticksConsumed >= 1

\* C12: when cancellation and the stop signal are both pending at a wait
\* point, both exits are ready; the loop has left through exactly one of
\* them, the return value is that exit's, and Start has returned only with
\* the in-flight counter at zero and no invocation executing.
C12_EitherExitJoins ==
    /\ (pc = "select" /\ cancelled /\ stopCh = "closed" =>
            ENABLED SelectCtx /\ ENABLED SelectStop)
    /\ (raced /\ pc = "returned" =>
            /\ ret \in {"nil", "ctxErr"}
            /\ wg = 0
            /\ Executing = 0
            /\ immPc \in {"none", "done"})
    /\ (raced => pc \in {"waitCtx", "waitStop", "returned"})
    /\ (pc = "waitCtx" => ret = "none")
    /\ (pc = "waitStop" => ret = "none")

\* both were pending when the loop exited, the immediate invocation was in
\* flight, and Start has returned the cancellation error after joining it
C12_Witness ==
    /\ raced
    /\ waited
    /\ pc = "returned"
    /\ ret = "ctxErr"
    /\ immPc = "done"

\* C15: at most one tick-triggered invocation is executing, it executes on
\* the loop's goroutine, and from the receipt of a tick until the invocation
\* has returned and wg.Done has run no case of the select can be taken: the
\* loop consumes no tick and observes neither stop nor cancellation.
C15_TickInvocationsSerial ==
    /\ activeTick <= 1
    /\ (activeTick = 1 <=> pc = "tickExec")
    /\ (pc \in {"tickAdd", "tickCall", "tickExec", "tickDone"} =>
            /\ ~ENABLED SelectTick
            /\ ~ENABLED SelectStop
            /\ ~ENABLED SelectCtx)

\* a later tick-triggered invocation is executing while a tick is pending,
\* the stop signal is triggered and the context is cancelled
C15_Witness ==
    /\ pc = "tickExec"
    /\ ticksConsumed >= 2
    /\ tickPending
    /\ stopCh = "closed"
    /\ cancelled

\* the goroutine of the immediate invocation has been launched and has not ended
ImmInFlight == immPc \in {"spawned", "exec", "fnDone"}

\* C16: with executeImmediate=true the loop never waits for the immediate
\* invocation: the ticker is created and every ready case of the select can
\* be taken while that invocation is in flight, and when a tick-triggered
\* invocation is about to be called while the immediate one has not been
\* entered yet, either can be entered first.
C16_ImmediateDoesNotBlockLoop ==
    executeImmediate =>
        /\ (pc = "ticker" => ENABLED NewTicker)
        /\ (pc = "select" /\ ImmInFlight =>
                /\ (tickPending => ENABLED SelectTick)
                /\ (stopCh = "closed" => ENABLED SelectStop)
                /\ (cancelled => ENABLED SelectCtx))
        /\ (pc = "tickCall" /\ ImmInFlight => ENABLED TickInvoke)
        /\ (pc = "tickCall" /\ immPc = "spawned" => ENABLED ImmInvoke)

\* a tick-triggered invocation is executing before the immediate invocation
\* has been entered
C16_Witness ==
    /\ executeImmediate
    /\ immPc = "spawned"
    /\ pc = "tickExec"
    /\ activeTick = 1
    /\ count = 1

\* C17: every elapsed tick is consumed, pending or dropped, and at most one
\* is pending; a tick that elapses while one is pending is dropped; only the
\* loop's receive takes the pending tick, one per receive, so a tick that
\* elapsed during an execution is still there when the loop waits again and
\* a second receive needs a new tick.
C17_TicksNotQueued ==
    /\ [](/\ ticksConsumed + ticksDropped + (IF tickPending THEN 1 ELSE 0)
                = ticksElapsed
          /\ (pc = "select" /\ tickPending => ENABLED SelectTick))
    /\ [][/\ (tickPending /\ pc # "select" => tickPending')
          /\ (ticksConsumed' # ticksConsumed =>
                 /\ ticksConsumed' = ticksConsumed + 1
                 /\ tickPending /\ ~tickPending')
          /\ (tickPending /\ ticksElapsed' # ticksElapsed =>
                 tickPending' /\ ticksDropped' = ticksDropped + 1)]_vars

\* the first execution has ended after three intervals: one tick retained,
\* one dropped
C17_Witness ==
    /\ pc = "select"
    /\ ticksConsumed = 1
    /\ count >= 1
    /\ ticksElapsed = 3
    /\ tickPending
    /\ ticksDropped = 1

\* invocations launched whose closure has not finished (wg.Done not yet run)
InFlight ==
    (IF ImmInFlight THEN 1 ELSE 0)
      + (IF pc \in {"tickCall", "tickExec", "tickDone"} THEN 1 ELSE 0)

\* C18: the in-flight counter equals the number of invocations launched
\* whose closure has not finished, is never negative, and counts every
\* invocation that is executing.
C18_CounterMatchesInFlight ==
    /\ wg = InFlight
    /\ wg >= 0
    /\ Executing <= wg

\* the immediate and a tick-triggered invocation are both counted
C18_Witness ==
    /\ wg = 2
    /\ activeImm = 1
    /\ activeTick = 1

\* goroutines launched by Start
Goroutines == IF immPc = "none" THEN 0 ELSE 1

\* C19: Start launches one goroutine when executeImmediate is true, before
\* the ticker is created, and none when it is false; that goroutine runs the
\* immediate invocation only, and a tick-triggered invocation executes only
\* while the loop's goroutine is inside it.
C19_AtMostOneGoroutine ==
    /\ Goroutines <= 1
    /\ (executeImmediate /\ pc \notin {"idle", "immediate"} => Goroutines = 1)
    /\ (~executeImmediate => Goroutines = 0 /\ activeImm = 0)
    /\ activeImm <= 1
    /\ (activeImm = 1 <=> immPc = "exec")
    /\ (activeTick > 0 => pc = "tickExec")

\* the goroutine has ended and a later tick-triggered invocation is executing
\* on the loop's goroutine
C19_Witness ==
    /\ executeImmediate
    /\ immPc = "done"
    /\ pc = "tickExec"
    /\ ticksConsumed >= 2

\* C20 (as stated): once an invocation has panicked, no further invocation
\* is entered and Start does not return.
C20_NothingAfterFault ==
    [][faults # {} => count' = count /\ ret' = ret]_vars

\* C20 (amended): no panic is caught: a panic in a tick-triggered invocation
\* unwinds Start, which from then on consumes no tick, starts no
\* tick-triggered invocation and never returns nil or the cancellation
\* error; every unrecovered panic ends in the process exiting, after which
\* nothing runs.  Until the exit the other goroutines keep running: the
\* immediate invocation can still be entered after a tick-path panic, and
\* after a panic of the immediate invocation the loop can still start a
\* tick-triggered invocation or return from Start.
C20_PanicNotCaught ==
    /\ []("tick" \in faults => pc \in {"tickPanic", "dead"} /\ ret = "none")
    /\ []("imm" \in faults => immPc \in {"immPanic", "dead"})
    /\ [](pc = "dead" \/ immPc = "dead" => crashed \/ ENABLED Crash)
    /\ [][/\ ("tick" \in faults =>
                 ticksConsumed' = ticksConsumed /\ activeTick' = 0)
          /\ (crashed => vars' = vars)]_vars

\* a tick-triggered invocation panicked, Start was unwound and the process
\* has exited
C20_Witness ==
    /\ "tick" \in faults
    /\ pc = "dead"
    /\ crashed
    /\ ticksConsumed >= 2

\* C13: for two instances built by separate newTickerJob calls, no step of
\* a Stop call on one changes the other's stop signal or any of its fields
\* (once, in-flight counter, invocation count, positions of its Start and of
\* its own Stop calls); an instance's stop signal is triggered exactly when
\* one of its own Stop calls has closed its channel, and its Start has
\* returned only after that or after the cancellation of its own context;
\* until then its ticker case stays available.
C13_StopIsLocal ==
    /\ [][\A i \in Jobs : JobStop(i) =>
              \A k \in Jobs \ {i} :
                  /\ StopSignal(k)' = StopSignal(k)
                  /\ jobs'[k] = jobs[k]]_vars
    /\ [](\A k \in Jobs :
              /\ (jobs[k].pc = "returned" =>
                      jobs[k].closes = 1 \/ jobs[k].ctxDone)
              /\ (StopSignal(k) = "closed" <=> jobs[k].closes = 1)
              /\ jobs[k].closes <= 1
              /\ ((jobs[k].pc = "select" /\ jobs[k].closes = 0
                       /\ ~jobs[k].ctxDone) =>
                      /\ ~ENABLED JobSelectStop(k)
                      /\ ~ENABLED JobSelectCtx(k)))
    /\ [](jobs[1].stopCh # jobs[2].stopCh /\ ~jobsPanicked)

\* a Stop call on the first instance has closed its channel and has not yet
\* stored the once's done flag while its Start has already returned nil after
\* joining the immediate invocation; the second instance is executing a later
\* tick-triggered invocation with its stop signal untriggered
C13_Witness ==
    /\ jobs[1].pc = "returned"
    /\ jobs[1].ret = "nil"
    /\ jobs[1].immPc = "done"
    /\ ~jobs[1].onceDone
    /\ jobs[1].stopAt["store"] = 1
    /\ jobs[2].pc = "exec"
    /\ jobs[2].count >= 2
    /\ StopSignal(2) = "open"
    /\ jobs[2].closes = 0
    /\ ~jobs[2].ctxDone

\* invocations launched by the immediate path: the go statement of line 42
\* has been executed
ImmLaunched == IF immPc = "none" THEN 0 ELSE 1

\* invocations of the immediate path that have entered executeFn
ImmEntered == IF immPc \in {"none", "spawned"} THEN 0 ELSE 1

\* invocations launched by the ticker case: the calls of the closure of
\* lines 63-66 that have entered executeFn
TickLaunched == count - ImmEntered

\* the loop has received a tick and has not yet called the closure
TickLaunching == IF pc \in {"tickAdd", "tickCall"} THEN 1 ELSE 0

\* C21: the invocations launched so far are one per consumed tick (the tick
\* just received, whose call is the loop's next statement, included) plus one
\* for the immediate path once Start is past its `if`, zero when the flag is
\* false; when Start has returned the invocations entered are exactly the
\* ticks consumed plus that one; a step that enters an invocation is the
\* ticker case's call or the immediate goroutine's call and enters exactly one.
C21_OneInvocationPerTick ==
    /\ [](/\ TickLaunched + TickLaunching = ticksConsumed
          /\ ImmLaunched = IF executeImmediate /\ pc \notin {"idle", "immediate"}
                             THEN 1 ELSE 0
          /\ (pc \in {"select", "tickExec", "tickDone", "waitStop", "waitCtx",
                      "returned"} =>
                  TickLaunched + ImmLaunched
                      = ticksConsumed + (IF executeImmediate THEN 1 ELSE 0))
          /\ (pc = "returned" =>
                  count = ticksConsumed + (IF executeImmediate THEN 1 ELSE 0)))
    /\ [][count' # count =>
              /\ count' = count + 1
              /\ \/ pc = "tickCall" /\ pc' = "tickExec"
                 \/ immPc = "spawned" /\ immPc' = "exec"]_vars

\* Start with executeImmediate=true has returned after consuming two ticks:
\* three invocations were launched
C21_Witness ==
    /\ pc = "returned"
    /\ executeImmediate
    /\ ticksConsumed = 2
    /\ count = 3
    /\ ticksDropped > 0

\* C22: with executeImmediate=true and the stop signal or the cancellation
\* already set when Start is called, Start still launches the immediate
\* invocation; when Start has returned that invocation has been entered
\* exactly once and has completed (its wg.Done included); and under fair
\* scheduling such a Start does return, with the immediate invocation done.
C22_ImmediateDespiteTrigger ==
    /\ []((preTriggered /\ executeImmediate) =>
              /\ (pc \notin {"idle", "immediate"} => ImmLaunched = 1)
              /\ (pc = "returned" =>
                      /\ immPc = "done"
                      /\ ImmEntered = 1
                      /\ count = ticksConsumed + 1
                      /\ activeImm = 0
                      /\ wg = 0))
    /\ ((preTriggered /\ executeImmediate) ~> (pc = "returned" /\ immPc = "done"))

\* Stop had closed the channel before Start was called; Start has returned
\* nil after joining the immediate invocation, the only invocation made
C22_Witness ==
    /\ preTriggered
    /\ executeImmediate
    /\ ~cancelled
    /\ pc = "returned"
    /\ ret = "nil"
    /\ waited
    /\ immPc = "done"
    /\ count = 1

\* a step of some Stop call
StopStep == stopAt' # stopAt

\* C23: no step of a Stop call changes the context's state, the in-flight
\* invocations or the positions of the loop and of the immediate goroutine;
\* an in-flight invocation ends only by executeFn's own return; the context
\* is cancelled by its owner only; and while an invocation is in flight Start
\* has not returned, whether or not Stop or the cancellation has happened.
C23_StopDoesNotInterrupt ==
    /\ [][StopStep =>
              /\ cancelled' = cancelled
              /\ activeImm' = activeImm /\ activeTick' = activeTick
              /\ pc' = pc /\ immPc' = immPc
              /\ wg' = wg /\ count' = count]_vars
    /\ [][/\ (activeTick' < activeTick => pc = "tickExec" /\ pc' = "tickDone")
          /\ (activeImm' < activeImm => immPc = "exec" /\ immPc' = "fnDone")
          /\ (cancelled' # cancelled => ~StopStep /\ UNCHANGED startVars)]_vars
    /\ [](Executing > 0 => pc # "returned" /\ ret = "none" /\ wg > 0)

\* every Stop call has returned and the context is cancelled, the loop has
\* left the select and sits in j.wg.Wait() while the immediate invocation is
\* still executing
C23_Witness ==
    /\ stopAt["done"] = NumStoppers
    /\ stopCh = "closed"
    /\ cancelled
    /\ pc \in {"waitStop", "waitCtx"}
    /\ activeImm = 1
    /\ ret = "none"

\* C24: the stop signal and the once are monotonic: no step reopens a closed
\* stopCh or resets stopOnce; and a Start called on an instance whose stop
\* signal is already triggered keeps finding the stop case ready at its
\* select, returns under fair scheduling, and returns nil unless its context
\* is cancelled as well.
C24_StopSignalMonotonic ==
    /\ [][/\ (stopCh = "closed" => stopCh' = "closed")
          /\ (onceDone => onceDone')
          /\ closes' >= closes]_vars
    /\ []((preTriggered /\ ~cancelled) =>
              /\ stopCh = "closed"
              /\ (pc = "select" => ENABLED SelectStop)
              /\ (pc = "returned" => ret = "nil"))
    /\ ((preTriggered /\ stopCh = "closed") ~> (pc = "returned"))

\* Start was called after Stop had closed the channel, with the context
\* never cancelled and executeImmediate=false: it has returned nil without
\* any invocation although an interval had elapsed
C24_Witness ==
    /\ preTriggered
    /\ ~cancelled
    /\ ~executeImmediate
    /\ onceDone
    /\ pc = "returned"
    /\ ret = "nil"
    /\ count = 0
    /\ ticksElapsed > 0

\* C25 (as stated): over all Stop calls made on the value newTickerJob
\* returned and on its by-value copies, the stop channel is closed at most
\* once: no Stop call executes close(j.stopCh) on a channel that is already
\* closed.
C25_ClosedAtMostOnce ==
    /\ [](~jobsPanicked)
    /\ [](jobs[1].closes + jobs[2].closes <= 1)

\* C26: once a configureSSL call has run the once body the flag equals that
\* call's argument and no later step changes it, whatever later calls pass;
\* the call that determines the flag began before any configureSSL call had
\* returned (for sequential calls it is the first call); and when any call
\* has returned the flag is already determined.
C26_FirstCallWins ==
    /\ []((sslWinner # "none") =>
              /\ sslFlag = sslArg[sslWinner]
              /\ ~sslLate[sslWinner])
    /\ [](\A c \in SSLCallers :
              sslPc[c] = "done" => (sslWinner # "none" /\ sslDone))
    /\ [][(sslWinner # "none") =>
              (sslFlag' = sslFlag /\ sslWinner' = sslWinner)]_vars

\* all three calls have returned; two of them came after another had
\* returned, one of those passing the opposite value, and the flag is still
\* the first call's argument
C26_Witness ==
    /\ \A c \in SSLCallers : sslPc[c] = "done"
    /\ \E c \in SSLCallers : sslLate[c] /\ sslArg[c] # sslFlag
    /\ \E c \in SSLCallers : sslLate[c] /\ sslArg[c] = sslFlag
    /\ sslFlag = sslArg[sslWinner]

\* C27 (as stated): a DB call made with the context an InTx call passed to
\* its fn, or with a context derived from it, returns that InTx call's
\* transaction, for every InTx call whose fn is running, nested ones
\* included; a DB call with a context holding no transaction returns the
\* default session.
C27_DBReturnsEnclosingTx ==
    dbCall.made =>
        /\ \A k \in 1..Len(txStack) :
              DerivedFrom(dbCall.ctx, txStack[k].fnCtx) =>
                  (dbCall.kind = "tx" /\ dbCall.tx = txStack[k].tx)
        /\ ((\A i \in 1..Len(dbCall.ctx) : dbCall.ctx[i].key # "tx") =>
                dbCall.kind = "default")

====
